---- MODULE Spec2Model ----
(***************************************************************************)
(* Model of the NutriMate recommendation service (src/ml_api.py).          *)
(*                                                                         *)
(* Numbers are exact decimals held as scaled integers:                     *)
(*   weightKg, targetWeightKg      tenths of a kilogram                    *)
(*   heightCm                      <<mantissa, exponent>>, mantissa *      *)
(*                                 10^exponent centimetres                 *)
(*   bmr, tdee, bmi, calories      hundredths                              *)
(*   macro percentages             thousandths                             *)
(*   gram values                   tenths of a gram                        *)
(*   proteinPerKg                  hundredths                              *)
(* round(x, n) is Python's round-half-to-even, applied to the exact        *)
(* decimal value; where the exact value is a decimal tie the binary float  *)
(* may lie on either side of it, and the code's result may then differ     *)
(* from the model's by one unit in the last place.                         *)
(* An Optional field is a sequence of length 0 or 1.                       *)
(***************************************************************************)
EXTENDS Integers, Sequences, FiniteSets

VARIABLES req, frame, call

vars == <<req, frame, call>>

(* ------------------------------ bounds --------------------------------- *)

\* number of request slots served at the same time
NumRequests == 2
\* target weights are drawn from weight - MaxDiffTenths .. weight + MaxDiffTenths
MaxDiffTenths == 6
\* direct calls of calculate_target_calories: tdee, bmr in -MaxGrid..MaxGrid steps
MaxGrid == 20
GridStep == 25000

Requests == 1..NumRequests

(* ------------------------------ enums ---------------------------------- *)

Genders == {"MALE", "FEMALE"}

ActivityLevels == {"SEDENTARY", "LIGHT", "MODERATE", "ACTIVE", "VERY_ACTIVE"}

Goals == {"LOSE", "GAIN", "MAINTAIN"}

(* ---------------------------- arithmetic ------------------------------- *)

Abs(x) == IF x < 0 THEN -x ELSE x

\* n / d rounded to the nearest integer, ties to the even one (d > 0)
RoundHalfEven(n, d) ==
    LET q == n \div d
        r == n % d
    IN  IF 2 * r < d THEN q
        ELSE IF 2 * r > d THEN q + 1
        ELSE IF q % 2 = 0 THEN q ELSE q + 1

\* the part of a height that is visible at a resolution of one centimetre
HeightCmFixed(h) == IF h[2] = 0 THEN h[1] ELSE 0

\* (height_cm / 100) ** 2 is below the smallest positive float and comes out
\* 0.0 (mantissas of at most three digits)
SquareUnderflows(h) == h[1] > 0 /\ h[1] < 1000 /\ 2 * (h[2] - 2) < -330

(* --------------------------- business logic ---------------------------- *)

calculate_bmr(weight_kg, height_cm, age, gender) ==
    IF gender = "MALE"
    THEN RoundHalfEven(883620 + 13397 * weight_kg
                       + 47990 * HeightCmFixed(height_cm) - 56770 * age, 100)
    ELSE RoundHalfEven(4475930 + 9247 * weight_kg
                       + 30980 * HeightCmFixed(height_cm) - 43300 * age, 100)

activity_multipliers(activity_level) ==
    CASE activity_level = "SEDENTARY"   -> 1200
      [] activity_level = "LIGHT"       -> 1375
      [] activity_level = "MODERATE"    -> 1550
      [] activity_level = "ACTIVE"      -> 1725
      [] activity_level = "VERY_ACTIVE" -> 1900
      [] OTHER                          -> 1200

calculate_tdee(bmr, activity_level) ==
    RoundHalfEven(bmr * activity_multipliers(activity_level), 1000)

calculate_bmi(weight_kg, height_cm) ==
    RoundHalfEven(weight_kg * 100000, height_cm[1] * height_cm[1])

\* variant: the target weight is consulted before the explicit goal
determine_goal_target_first(profile) ==
    IF profile.targetWeightKg # <<>>
    THEN LET diff == profile.targetWeightKg[1] - profile.weightKg
         IN  IF Abs(diff) < 5 THEN "MAINTAIN"
             ELSE IF diff > 0 THEN "GAIN"
             ELSE "LOSE"
    ELSE IF profile.goal # <<>> THEN profile.goal[1]
    ELSE "MAINTAIN"

\* variant: the 0.5 kg threshold is inclusive
determine_goal_inclusive(profile) ==
    IF profile.goal # <<>> THEN profile.goal[1]
    ELSE IF profile.targetWeightKg # <<>>
         THEN LET diff == profile.targetWeightKg[1] - profile.weightKg
              IN  IF Abs(diff) <= 5 THEN "MAINTAIN"
                  ELSE IF diff > 0 THEN "GAIN"
                  ELSE "LOSE"
         ELSE "MAINTAIN"

determine_goal(profile) ==
    IF profile.goal # <<>> THEN profile.goal[1]
    ELSE IF profile.targetWeightKg # <<>>
         THEN LET diff == profile.targetWeightKg[1] - profile.weightKg
              IN  IF Abs(diff) < 5 THEN "MAINTAIN"
                  ELSE IF diff > 0 THEN "GAIN"
                  ELSE "LOSE"
         ELSE "MAINTAIN"

\* variant: the ceiling is applied before the floor
calculate_target_calories_cap_first(tdee, goal, bmr) ==
    LET offset  == IF goal = "LOSE" THEN tdee - 50000
                   ELSE IF goal = "GAIN" THEN tdee + 50000
                   ELSE tdee
        capped  == IF offset > 450000 THEN 450000 ELSE offset
        floored == IF capped < bmr THEN bmr ELSE capped
    IN  RoundHalfEven(floored, 1)

\* variant: the offsets of LOSE and GAIN are exchanged
calculate_target_calories_swapped(tdee, goal, bmr) ==
    LET offset  == IF goal = "LOSE" THEN tdee + 50000
                   ELSE IF goal = "GAIN" THEN tdee - 50000
                   ELSE tdee
        floored == IF offset < bmr THEN bmr ELSE offset
        capped  == IF floored > 450000 THEN 450000 ELSE floored
    IN  RoundHalfEven(capped, 1)

\* the three clamps, in the order the code applies them
calculate_target_calories(tdee, goal, bmr) ==
    LET offset  == IF goal = "LOSE" THEN tdee - 50000
                   ELSE IF goal = "GAIN" THEN tdee + 50000
                   ELSE tdee
        floored == IF offset < bmr THEN bmr ELSE offset
        capped  == IF floored > 450000 THEN 450000 ELSE floored
    IN  RoundHalfEven(capped, 1)

\* variant: MODERATE counts as high activity
is_high_activity_moderate(activity_level) ==
    activity_level \in {"MODERATE", "ACTIVE", "VERY_ACTIVE"}

is_high_activity(activity_level) == activity_level \in {"ACTIVE", "VERY_ACTIVE"}

\* the (protein, fat, carb) row chosen by the if/elif chain
macro_row(goal, activity_level) ==
    IF goal = "GAIN"
    THEN IF is_high_activity(activity_level) THEN <<350, 250, 400>>
         ELSE <<300, 300, 400>>
    ELSE IF goal = "LOSE"
    THEN IF is_high_activity(activity_level) THEN <<400, 250, 350>>
         ELSE <<350, 300, 350>>
    ELSE IF is_high_activity(activity_level) THEN <<300, 250, 450>>
         ELSE <<300, 300, 400>>

calculate_macros(target_calories, goal, activity_level, weight_kg) ==
    LET row   == macro_row(goal, activity_level)
        total == row[1] + row[2] + row[3]
    IN  IF Abs(total - 1000) > 10
        THEN <<RoundHalfEven(row[1] * 1000, total),
               RoundHalfEven(row[2] * 1000, total),
               RoundHalfEven(row[3] * 1000, total)>>
        ELSE row

\* variant: every macro is converted at 4 kcal per gram
macro_gram_all_4(target_calories, percent, kcal_per_gram) ==
    RoundHalfEven(target_calories * percent, 4 * 10000)

\* round((target_calories * percent) / kcal_per_gram, 1)
macro_gram(target_calories, percent, kcal_per_gram) ==
    RoundHalfEven(target_calories * percent, kcal_per_gram * 10000)

\* round(protein_gram / weightKg, 2)
protein_per_kg_of(protein_gram, weight_kg) ==
    RoundHalfEven(protein_gram * 100, weight_kg)

activity_text(activity_level) ==
    CASE activity_level = "SEDENTARY"   -> "it van dong"
      [] activity_level = "LIGHT"       -> "van dong nhe"
      [] activity_level = "MODERATE"    -> "van dong vua"
      [] activity_level = "ACTIVE"      -> "nang dong"
      [] activity_level = "VERY_ACTIVE" -> "rat nang dong"
      [] OTHER                          -> "van dong"

\* variant: both BMI thresholds are inclusive
bmi_status_inclusive(bmi) ==
    IF bmi <= 1850 THEN "Ban dang thieu can. "
    ELSE IF bmi >= 2500 THEN "Ban dang thua can. "
    ELSE ""

bmi_status(bmi) ==
    IF bmi < 1850 THEN "Ban dang thieu can. "
    ELSE IF bmi > 2500 THEN "Ban dang thua can. "
    ELSE ""

\* the note is the f-string's three varying parts: the BMI clause, the goal's
\* template and the activity phrase
generate_nutrition_note(goal, activity_level, bmi) ==
    IF goal = "GAIN"
    THEN <<bmi_status(bmi), "tang can", activity_text(activity_level)>>
    ELSE IF goal = "LOSE"
    THEN <<bmi_status(bmi), "giam can", activity_text(activity_level)>>
    ELSE <<bmi_status(bmi), "duy tri can nang", activity_text(activity_level)>>

(* ----------------------------- validation ------------------------------ *)

\* the Field(...) constraints of UserProfile
field_constraints(profile) ==
    /\ profile.weightKg > 0
    /\ profile.heightCm[1] > 0
    /\ profile.age > 0
    /\ profile.age <= 150
    /\ profile.gender \in Genders
    /\ profile.activityLevel \in ActivityLevels
    /\ (profile.targetWeightKg # <<>> => profile.targetWeightKg[1] > 0)
    /\ (profile.goal # <<>> => profile.goal[1] \in Goals)

\* variant: the difference is compared without abs()
validate_target_weight_signed(profile) ==
    profile.targetWeightKg # <<>>
        => ~(profile.targetWeightKg[1] - profile.weightKg > 1000)

\* the model validator, run after the field constraints passed
validate_target_weight(profile) ==
    profile.targetWeightKg # <<>>
        => ~(Abs(profile.targetWeightKg[1] - profile.weightKg) > 1000)

(* ------------------------------- state --------------------------------- *)

\* the locals of one invocation of get_recommendations, before any is bound
EmptyFrame ==
    [bmr |-> 0, tdee |-> 0, bmi |-> 0, goal |-> "", target_calories |-> 0,
     percent |-> <<0, 0, 0>>, protein_gram |-> 0, fat_gram |-> 0,
     carb_gram |-> 0, protein_per_kg |-> 0, note |-> <<>>]

\* variant: the intermediate values live in module-level globals
FrameShared(r) == 1

\* each invocation binds its locals in a frame of its own
Frame(r) == r

NoProfile ==
    [weightKg |-> 0, heightCm |-> <<0, 0>>, age |-> 0, gender |-> "",
     activityLevel |-> "", targetWeightKg |-> <<>>, goal |-> <<>>]

\* a request slot nothing has been posted to
IdleRequest ==
    [profile |-> NoProfile, pc |-> "idle", exc |-> "", status |-> 0,
     response |-> <<>>]

\* a request body as posted, not yet validated
Received(p) ==
    [profile |-> p, pc |-> "received", exc |-> "", status |-> 0,
     response |-> <<>>]

NoCall == [tdee |-> 0, bmr |-> 0, result |-> <<>>]

(* --------------------------- request bodies ---------------------------- *)

Weights == {0, 10, 640, 740, 4000}

Heights == {<<0, 0>>, <<1, -170>>, <<100, 0>>, <<160, 0>>, <<175, 0>>, <<200, 0>>}

Ages == {0, 30, 150, 151}

TargetsFor(w) ==
    {<<>>} \cup {<<w + d>> : d \in (-MaxDiffTenths..MaxDiffTenths)
                                    \cup {-1001, -1000, 1000, 1001}}

OptionalGoals == {<<>>} \cup {<<g>> : g \in Goals}

\* the bodies posted while several requests are in flight
ConcurrentProfiles ==
    {[weightKg |-> w, heightCm |-> <<160, 0>>, age |-> 30, gender |-> "MALE",
      activityLevel |-> "MODERATE", targetWeightKg |-> <<>>, goal |-> g] :
        w \in {640, 740}, g \in {<<>>, <<"LOSE">>}}
    \cup {[weightKg |-> 640, heightCm |-> <<1, -170>>, age |-> 30,
           gender |-> "FEMALE", activityLevel |-> "ACTIVE",
           targetWeightKg |-> <<>>, goal |-> <<>>],
          [weightKg |-> 640, heightCm |-> <<160, 0>>, age |-> 151,
           gender |-> "FEMALE", activityLevel |-> "ACTIVE",
           targetWeightKg |-> <<>>, goal |-> <<>>]}

Grid == {k * GridStep : k \in -MaxGrid..MaxGrid}

(* ------------------------------- Init ---------------------------------- *)

\* one request posted, with any body
Init ==
    /\ \E w \in Weights, h \in Heights, a \in Ages, g \in Genders,
          l \in ActivityLevels, og \in OptionalGoals :
          \E t \in TargetsFor(w) :
             req = [r \in Requests |->
                      IF r = 1
                      THEN Received([weightKg |-> w, heightCm |-> h, age |-> a,
                                     gender |-> g, activityLevel |-> l,
                                     targetWeightKg |-> t, goal |-> og])
                      ELSE IdleRequest]
    /\ frame = [f \in Requests |-> EmptyFrame]
    /\ call = NoCall

\* every slot holds a posted request
InitConc ==
    /\ req \in [Requests -> {Received(p) : p \in ConcurrentProfiles}]
    /\ frame = [f \in Requests |-> EmptyFrame]
    /\ call = NoCall

\* calculate_target_calories called directly on a grid of (tdee, bmr)
InitTC ==
    /\ req = [r \in Requests |-> IdleRequest]
    /\ frame = [f \in Requests |-> EmptyFrame]
    /\ call \in [tdee : Grid, bmr : Grid, result : {<<>>}]

(* ------------------------------ actions -------------------------------- *)

Goto(r, next) == req' = [req EXCEPT ![r].pc = next]

\* the body fails validation: answered 422, the handler is never entered
Reject(r) ==
    /\ req[r].pc = "received"
    /\ ~(field_constraints(req[r].profile) /\ validate_target_weight(req[r].profile))
    /\ req' = [req EXCEPT ![r].pc = "done", ![r].status = 422]
    /\ UNCHANGED <<frame, call>>

\* the body passes validation: get_recommendations is entered
Accept(r) ==
    /\ req[r].pc = "received"
    /\ field_constraints(req[r].profile)
    /\ validate_target_weight(req[r].profile)
    /\ Goto(r, "bmr")
    /\ UNCHANGED <<frame, call>>

StepBmr(r) ==
    /\ req[r].pc = "bmr"
    /\ frame' = [frame EXCEPT ![Frame(r)].bmr =
                    calculate_bmr(req[r].profile.weightKg, req[r].profile.heightCm,
                                  req[r].profile.age, req[r].profile.gender)]
    /\ Goto(r, "tdee")
    /\ UNCHANGED call

StepTdee(r) ==
    /\ req[r].pc = "tdee"
    /\ frame' = [frame EXCEPT ![Frame(r)].tdee =
                    calculate_tdee(frame[Frame(r)].bmr, req[r].profile.activityLevel)]
    /\ Goto(r, "bmi")
    /\ UNCHANGED call

StepBmi(r) ==
    /\ req[r].pc = "bmi"
    /\ ~SquareUnderflows(req[r].profile.heightCm)
    /\ frame' = [frame EXCEPT ![Frame(r)].bmi =
                    calculate_bmi(req[r].profile.weightKg, req[r].profile.heightCm)]
    /\ Goto(r, "goal")
    /\ UNCHANGED call

\* weight_kg / (height_m ** 2) divides by 0.0
StepBmiRaises(r) ==
    /\ req[r].pc = "bmi"
    /\ SquareUnderflows(req[r].profile.heightCm)
    /\ req' = [req EXCEPT ![r].pc = "except", ![r].exc = "ZeroDivisionError"]
    /\ UNCHANGED <<frame, call>>

StepGoal(r) ==
    /\ req[r].pc = "goal"
    /\ frame' = [frame EXCEPT ![Frame(r)].goal = determine_goal(req[r].profile)]
    /\ Goto(r, "target")
    /\ UNCHANGED call

StepTarget(r) ==
    /\ req[r].pc = "target"
    /\ frame' = [frame EXCEPT ![Frame(r)].target_calories =
                    calculate_target_calories(frame[Frame(r)].tdee,
                                              frame[Frame(r)].goal,
                                              frame[Frame(r)].bmr)]
    /\ Goto(r, "macros")
    /\ UNCHANGED call

StepMacros(r) ==
    /\ req[r].pc = "macros"
    /\ frame' = [frame EXCEPT ![Frame(r)].percent =
                    calculate_macros(frame[Frame(r)].target_calories,
                                     frame[Frame(r)].goal,
                                     req[r].profile.activityLevel,
                                     req[r].profile.weightKg)]
    /\ Goto(r, "grams")
    /\ UNCHANGED call

StepGrams(r) ==
    /\ req[r].pc = "grams"
    /\ LET f == frame[Frame(r)]
       IN  frame' = [frame EXCEPT
                ![Frame(r)].protein_gram = macro_gram(f.target_calories, f.percent[1], 4),
                ![Frame(r)].fat_gram     = macro_gram(f.target_calories, f.percent[2], 9),
                ![Frame(r)].carb_gram    = macro_gram(f.target_calories, f.percent[3], 4)]
    /\ Goto(r, "protein_per_kg")
    /\ UNCHANGED call

StepProteinPerKg(r) ==
    /\ req[r].pc = "protein_per_kg"
    /\ frame' = [frame EXCEPT ![Frame(r)].protein_per_kg =
                    protein_per_kg_of(frame[Frame(r)].protein_gram,
                                      req[r].profile.weightKg)]
    /\ Goto(r, "note")
    /\ UNCHANGED call

StepNote(r) ==
    /\ req[r].pc = "note"
    /\ frame' = [frame EXCEPT ![Frame(r)].note =
                    generate_nutrition_note(frame[Frame(r)].goal,
                                            req[r].profile.activityLevel,
                                            frame[Frame(r)].bmi)]
    /\ Goto(r, "return")
    /\ UNCHANGED call

\* the RecommendationResponse built from the locals
RecommendationResponse(f) ==
    [bmr |-> f.bmr, tdee |-> f.tdee, recommendedCalories |-> f.target_calories,
     bmi |-> f.bmi,
     macros |-> [proteinGram |-> f.protein_gram, fatGram |-> f.fat_gram,
                 carbGram |-> f.carb_gram, proteinPerKg |-> f.protein_per_kg],
     note |-> f.note]

Return(r) ==
    /\ req[r].pc = "return"
    /\ req' = [req EXCEPT ![r].pc = "done", ![r].status = 200,
                          ![r].response = <<RecommendationResponse(frame[Frame(r)])>>]
    /\ UNCHANGED <<frame, call>>

\* except ValueError -> 400, except Exception -> 500
Except(r) ==
    /\ req[r].pc = "except"
    /\ req' = [req EXCEPT ![r].pc = "done",
                          ![r].status = IF req[r].exc = "ValueError" THEN 400 ELSE 500]
    /\ UNCHANGED <<frame, call>>

\* the handler run from entry to exit on its own: <<status, response>>
get_recommendations(profile) ==
    IF ~(field_constraints(profile) /\ validate_target_weight(profile))
    THEN <<422, <<>>>>
    ELSE IF SquareUnderflows(profile.heightCm)
    THEN <<500, <<>>>>
    ELSE LET bmr == calculate_bmr(profile.weightKg, profile.heightCm,
                                  profile.age, profile.gender)
             tdee == calculate_tdee(bmr, profile.activityLevel)
             bmi == calculate_bmi(profile.weightKg, profile.heightCm)
             goal == determine_goal(profile)
             target_calories == calculate_target_calories(tdee, goal, bmr)
             percent == calculate_macros(target_calories, goal,
                                         profile.activityLevel, profile.weightKg)
             protein_gram == macro_gram(target_calories, percent[1], 4)
         IN  <<200,
               <<RecommendationResponse(
                   [bmr |-> bmr, tdee |-> tdee, bmi |-> bmi, goal |-> goal,
                    target_calories |-> target_calories, percent |-> percent,
                    protein_gram |-> protein_gram,
                    fat_gram |-> macro_gram(target_calories, percent[2], 9),
                    carb_gram |-> macro_gram(target_calories, percent[3], 4),
                    protein_per_kg |->
                        protein_per_kg_of(protein_gram, profile.weightKg),
                    note |-> generate_nutrition_note(
                                 goal, profile.activityLevel, bmi)])>>>>

\* the next step of request r
Step(r) ==
    \/ Reject(r)
    \/ Accept(r)
    \/ StepBmr(r)
    \/ StepTdee(r)
    \/ StepBmi(r)
    \/ StepBmiRaises(r)
    \/ StepGoal(r)
    \/ StepTarget(r)
    \/ StepMacros(r)
    \/ StepGrams(r)
    \/ StepProteinPerKg(r)
    \/ StepNote(r)
    \/ Return(r)
    \/ Except(r)

Next == \E r \in Requests : Step(r)

\* one direct call, evaluated for each of the three goals
CallTargetCalories ==
    /\ call.result = <<>>
    /\ call' = [call EXCEPT !.result =
                   <<[g \in Goals |->
                        calculate_target_calories(call.tdee, g, call.bmr)]>>]
    /\ UNCHANGED <<req, frame>>

NextTC == CallTargetCalories

Spec == Init /\ [][Next]_vars

SpecConc == InitConc /\ [][Next]_vars

SpecTC == InitTC /\ [][NextTC]_vars

TypeOK ==
    /\ \A r \in Requests :
          /\ req[r].pc \in {"idle", "received", "bmr", "tdee", "bmi", "goal",
                            "target", "macros", "grams", "protein_per_kg",
                            "note", "return", "except", "done"}
          /\ req[r].status \in {0, 200, 400, 422, 500}
          /\ Len(req[r].response) <= 1
    /\ Len(call.result) <= 1

(* ------------------------------ claims --------------------------------- *)

\* request r was answered with a complete response
Responded(r) == req[r].pc = "done" /\ req[r].status = 200

\* request r has bound its local goal
GoalResolved(r) ==
    req[r].pc \in {"target", "macros", "grams", "protein_per_kg", "note", "return"}
    \/ Responded(r)

\* request r has bound its local target_calories
TargetComputed(r) ==
    req[r].pc \in {"macros", "grams", "protein_per_kg", "note", "return"}
    \/ Responded(r)

\* request r has bound its macro percentages
MacrosComputed(r) ==
    req[r].pc \in {"grams", "protein_per_kg", "note", "return"} \/ Responded(r)

\* C1: every response has recommendedCalories > 0, recommendedCalories >= bmr
\* and recommendedCalories <= 4500.
C1_ClampInvariant ==
    \A r \in Requests :
        Responded(r) =>
            LET resp == req[r].response[1]
            IN  /\ resp.recommendedCalories > 0
                /\ resp.recommendedCalories >= resp.bmr
                /\ resp.recommendedCalories <= 450000

\* C2: an explicit goal is the resolved goal whatever the target weight is, and
\* a profile with neither goal nor target weight resolves to MAINTAIN.
C2_ExplicitGoalWins ==
    \A r \in Requests :
        GoalResolved(r) =>
            LET p == req[r].profile
            IN  /\ p.goal # <<>> => frame[r].goal = p.goal[1]
                /\ (p.goal = <<>> /\ p.targetWeightKg = <<>>)
                       => frame[r].goal = "MAINTAIN"

\* an explicit LOSE was kept although the target weight lies above the weight
C2_Witness ==
    /\ GoalResolved(1)
    /\ req[1].profile.goal = <<"LOSE">>
    /\ req[1].profile.targetWeightKg # <<>>
    /\ req[1].profile.targetWeightKg[1] > req[1].profile.weightKg + 5
    /\ frame[1].goal = "LOSE"

\* C3: without an explicit goal and with a target weight, |diff| < 0.5 gives
\* MAINTAIN, diff = +0.5 gives GAIN, diff = -0.5 gives LOSE, and beyond 0.5 the
\* sign of diff decides between GAIN and LOSE.
C3_TargetWeightBoundary ==
    \A r \in Requests :
        (GoalResolved(r) /\ req[r].profile.goal = <<>>
                         /\ req[r].profile.targetWeightKg # <<>>) =>
            LET diff == req[r].profile.targetWeightKg[1] - req[r].profile.weightKg
                goal == frame[r].goal
            IN  /\ (-5 < diff /\ diff < 5) => goal = "MAINTAIN"
                /\ diff = 5 => goal = "GAIN"
                /\ diff = -5 => goal = "LOSE"
                /\ diff > 5 => goal = "GAIN"
                /\ diff < -5 => goal = "LOSE"

\* a target exactly 0.5 kg below the weight was resolved to LOSE
C3_Witness ==
    /\ GoalResolved(1)
    /\ req[1].profile.goal = <<>>
    /\ req[1].profile.targetWeightKg = <<req[1].profile.weightKg - 5>>
    /\ frame[1].goal = "LOSE"

\* C4: the macro percentages sum to 1.0 and the gram values give back the
\* calorie target up to the rounding of each gram value to one decimal:
\* |4 protein + 9 fat + 4 carb - recommendedCalories| <= 0.05 * (4 + 9 + 4).
C4_MacrosReconstructCalories ==
    \A r \in Requests :
        Responded(r) =>
            LET resp == req[r].response[1]
                pct  == frame[r].percent
            IN  /\ pct[1] + pct[2] + pct[3] = 1000
                /\ Abs(40 * resp.macros.proteinGram + 90 * resp.macros.fatGram
                       + 40 * resp.macros.carbGram - resp.recommendedCalories) <= 85

\* a response whose gram values were all changed by rounding
C4_Witness ==
    /\ Responded(1)
    /\ LET resp == req[1].response[1]
           pct  == frame[1].percent
       IN  /\ 40000 * resp.macros.proteinGram # resp.recommendedCalories * pct[1]
           /\ 90000 * resp.macros.fatGram # resp.recommendedCalories * pct[2]
           /\ 40000 * resp.macros.carbGram # resp.recommendedCalories * pct[3]
           /\ 40 * resp.macros.proteinGram + 90 * resp.macros.fatGram
              + 40 * resp.macros.carbGram # resp.recommendedCalories

\* C5: the target is TDEE - 500 / TDEE + 500 / TDEE by goal, raised to BMR when
\* below it and after that capped at 4500; a LOSE profile with TDEE - 500 < BMR
\* is recommended exactly BMR.
C5_OffsetFloorThenCeiling ==
    \A r \in Requests :
        TargetComputed(r) =>
            LET f       == frame[r]
                offset  == CASE f.goal = "LOSE" -> f.tdee - 50000
                             [] f.goal = "GAIN" -> f.tdee + 50000
                             [] f.goal = "MAINTAIN" -> f.tdee
                floored == IF offset < f.bmr THEN f.bmr ELSE offset
            IN  /\ floored <= 450000 => f.target_calories = floored
                /\ floored > 450000 => f.target_calories = 450000
                /\ (f.goal = "LOSE" /\ f.tdee - 50000 < f.bmr)
                       => f.target_calories = f.bmr

\* a LOSE response whose TDEE - 500 lay below BMR and was raised to it
C5_Witness ==
    /\ Responded(1)
    /\ frame[1].goal = "LOSE"
    /\ frame[1].tdee - 50000 < frame[1].bmr
    /\ req[1].response[1].recommendedCalories = req[1].response[1].bmr

\* C6: the percentages are the table row of (goal, high activity), high
\* activity being ACTIVE or VERY_ACTIVE, whatever the calories and the weight.
C6_MacroTable ==
    \A r \in Requests :
        MacrosComputed(r) =>
            LET goal == frame[r].goal
                high == req[r].profile.activityLevel \in {"ACTIVE", "VERY_ACTIVE"}
            IN  frame[r].percent =
                    CASE goal = "GAIN" /\ high      -> <<350, 250, 400>>
                      [] goal = "GAIN" /\ ~high     -> <<300, 300, 400>>
                      [] goal = "LOSE" /\ high      -> <<400, 250, 350>>
                      [] goal = "LOSE" /\ ~high     -> <<350, 300, 350>>
                      [] goal = "MAINTAIN" /\ high  -> <<300, 250, 450>>
                      [] goal = "MAINTAIN" /\ ~high -> <<300, 300, 400>>

\* a MODERATE profile got the low-activity LOSE row
C6_Witness ==
    /\ MacrosComputed(1)
    /\ frame[1].goal = "LOSE"
    /\ req[1].profile.activityLevel = "MODERATE"
    /\ frame[1].percent = <<350, 300, 350>>

\* the input constraints, as the specification lists them
ViolatesInputConstraint(p) ==
    \/ p.weightKg <= 0
    \/ p.heightCm[1] <= 0
    \/ p.age < 1
    \/ p.age > 150
    \/ (p.targetWeightKg # <<>> /\ Abs(p.targetWeightKg[1] - p.weightKg) > 1000)

\* C7: a request ends either with a complete response or with an error and no
\* partial result; a body violating an input constraint ends in the client
\* error without any stage having run; an exception in the pipeline ends in
\* the error outcome.
C7_AtomicOutcome ==
    \A r \in Requests :
        /\ req[r].pc # "done" => (req[r].status = 0 /\ req[r].response = <<>>)
        /\ req[r].pc \notin {"idle", "done"} => ENABLED Step(r)
        /\ req[r].pc = "done" =>
              \/ /\ req[r].status = 200
                 /\ Len(req[r].response) = 1
                 /\ DOMAIN req[r].response[1] =
                        {"bmr", "tdee", "recommendedCalories", "bmi", "macros", "note"}
                 /\ DOMAIN req[r].response[1].macros =
                        {"proteinGram", "fatGram", "carbGram", "proteinPerKg"}
                 /\ Len(req[r].response[1].note) = 3
              \/ /\ req[r].status \in {400, 422, 500}
                 /\ req[r].response = <<>>
        /\ ViolatesInputConstraint(req[r].profile) =>
              /\ req[r].pc \in {"idle", "received", "done"}
              /\ frame[r] = EmptyFrame
              /\ req[r].pc = "done" => req[r].status = 422
        /\ (req[r].exc # "" /\ req[r].pc = "done") =>
              (req[r].status \in {400, 500} /\ req[r].response = <<>>)

\* a target weight 100.1 kg below the weight was answered 422, no local bound
C7_Witness ==
    /\ req[1].pc = "done"
    /\ req[1].status = 422
    /\ req[1].profile.weightKg > 0
    /\ req[1].profile.heightCm[1] > 0
    /\ req[1].profile.age \in 1..150
    /\ req[1].profile.targetWeightKg # <<>>
    /\ req[1].profile.targetWeightKg[1] > 0
    /\ req[1].profile.weightKg - req[1].profile.targetWeightKg[1] = 1001
    /\ frame[1] = EmptyFrame

\* C8: whatever the interleaving, a finished request holds what the handler
\* yields on its profile alone, and two finished requests with identical
\* profiles hold identical answers.
C8_RequestsIndependent ==
    /\ \A r \in Requests :
          req[r].pc = "done" =>
              <<req[r].status, req[r].response>> = get_recommendations(req[r].profile)
    /\ \A r1, r2 \in Requests :
          (req[r1].pc = "done" /\ req[r2].pc = "done"
               /\ req[r1].profile = req[r2].profile) =>
              (req[r1].status = req[r2].status /\ req[r1].response = req[r2].response)

\* request 1 was answered while request 2, with another profile, was mid-way
C8_Witness ==
    /\ Responded(1)
    /\ req[2].pc = "target"
    /\ req[2].profile # req[1].profile
    /\ frame[2].bmr # frame[1].bmr
    /\ frame[2].goal # frame[1].goal

\* C9: the note's template is the goal's, its prefix is the underweight clause
\* iff bmi < 18.5, the overweight clause iff bmi > 25 and empty from 18.5 to 25
\* inclusive; the same resolved goal gives the calorie offset and the macro row.
C9_NoteMatchesGoalAndBmi ==
    \A r \in Requests :
        Responded(r) =>
            LET resp == req[r].response[1]
                goal == determine_goal(req[r].profile)
            IN  /\ resp.note[2] = CASE goal = "GAIN" -> "tang can"
                                    [] goal = "LOSE" -> "giam can"
                                    [] goal = "MAINTAIN" -> "duy tri can nang"
                /\ (resp.note[1] = "Ban dang thieu can. ") <=> (resp.bmi < 1850)
                /\ (resp.note[1] = "Ban dang thua can. ") <=> (resp.bmi > 2500)
                /\ (1850 <= resp.bmi /\ resp.bmi <= 2500) => resp.note[1] = ""
                /\ resp.recommendedCalories =
                       calculate_target_calories(resp.tdee, goal, resp.bmr)
                /\ frame[r].percent =
                       macro_row(goal, req[r].profile.activityLevel)

\* a response with bmi exactly 25 and no prefix
C9_Witness ==
    /\ Responded(1)
    /\ req[1].response[1].bmi = 2500
    /\ req[1].response[1].note[1] = ""
    /\ req[1].response[1].note[2] = "giam can"

\* C10: for the same tdee and bmr the target of LOSE is at most that of
\* MAINTAIN, which is at most that of GAIN.
C10_MonotoneInGoal ==
    call.result # <<>> =>
        /\ call.result[1]["LOSE"] <= call.result[1]["MAINTAIN"]
        /\ call.result[1]["MAINTAIN"] <= call.result[1]["GAIN"]

\* a call where the floor raised LOSE to MAINTAIN's target and GAIN lies above
C10_Witness ==
    /\ call.result # <<>>
    /\ call.tdee - 50000 < call.bmr
    /\ call.result[1]["LOSE"] = call.bmr
    /\ call.result[1]["LOSE"] = call.result[1]["MAINTAIN"]
    /\ call.result[1]["MAINTAIN"] < call.result[1]["GAIN"]

====
